---- MODULE Spec2Model ----
(***************************************************************************)
(* Model of wgkex/worker/netlink.py: the WireGuard peer, IPv6 route and    *)
(* bridge FDB adapters, link_handler that calls them in a row, the stale   *)
(* peer detector and wg_flush_stale_peers that sweeps one domain.          *)
(*                                                                         *)
(* The kernel is modelled by four tables: the links that exist, the peers  *)
(* of every WireGuard device, the IPv6 routes and the bridge FDB.  The     *)
(* worker is one synchronous thread: pc is its position, and the kernel    *)
(* changes behind its back (links created and deleted, handshakes, time)   *)
(* only between two of its calls.  Time is counted in hours.               *)
(***************************************************************************)
EXTENDS Integers, Sequences, FiniteSets, TLC

VARIABLES
    links,          \* names of the network interfaces that exist
    wgdev,          \* WireGuard device name -> its peers, in kernel order
    routes,         \* IPv6 routes: records [dst, oif]
    fdbtab,         \* bridge FDB: records [ifindex, lladdr, dst, NDA_IFINDEX]
    now,            \* datetime.now(), in hours
    pc,             \* position of the worker
    caller,         \* who made the running top-level call
    client,         \* the WireGuardClient link_handler is working on
    results,        \* link_handler's results dict
    calls,          \* adapter invocations of the latest link_handler, in order
    lhStatus,       \* outcome of the latest link_handler call
    exc,            \* the exception that is propagating, if any
    sweepDomain,    \* argument of the running wg_flush_stale_peers
    stale_clients,  \* what find_stale_wireguard_clients returned
    all_clients,    \* the peer messages the kernel sent to the detector
    invoked,        \* public keys link_handler was invoked for in this sweep
    link_handled,   \* results collected by the running sweep
    snap,           \* kernel tables when the running link_handler was entered
    prevAdd,        \* identity a link_handler(remove=False) just returned for
    repeat,         \* the running call repeats the add that just returned
    running,        \* identities of the link_handler calls in progress
    sessions,       \* pyroute2 sessions that are open
    sweepSnap,      \* kernel tables when the running sweep was entered
    d_in,           \* clients whose lladdr is read
    d_out           \* what reading lladdr gave for each

kernel == <<links, wgdev, routes, fdbtab, now>>
worker == <<pc, caller, client, results, calls, lhStatus, exc, sweepDomain,
            stale_clients, all_clients, invoked, link_handled, snap, prevAdd,
            repeat, running, sessions, sweepSnap>>
derive == <<d_in, d_out>>
vars == <<links, wgdev, routes, fdbtab, now, pc, caller, client, results,
          calls, lhStatus, exc, sweepDomain, stale_clients, all_clients, invoked,
          link_handled, snap, prevAdd, repeat, running, sessions, sweepSnap,
          d_in, d_out>>

(***************************************************************************)
(* Bounds and inputs.                                                      *)
(***************************************************************************)
\* The clock is read up to MaxNow, and moves TickHours at a time.
MaxNow == 10
TickHours == 3
\* The lladdr property is read up to MaxReads times.
MaxReads == 2

PEER_TIMEOUT_HOURS == 3

Keys == {"A", "B"}
\* A string that is not a WireGuard key: one character outside ASCII.
NonAsciiKey == "ä"
Domains == {"a", "b"}
\* The identities the signaling layer announces: two keys that share a
\* domain, and one key that is in two domains.
Announced == {<<"A", "a">>, <<"B", "a">>, <<"A", "b">>}

None == "None"
ZeroMac == "00:00:00:00:00:00"

(***************************************************************************)
(* WireGuardClient and its properties.                                     *)
(***************************************************************************)
WireGuardClient(public_key, domain, remove) ==
    [public_key |-> public_key, domain |-> domain, remove |-> remove]

\* The code points of the strings used as public keys.
CodePoints(public_key) ==
    CASE public_key = "A" -> <<65>>
      [] public_key = "B" -> <<66>>
      [] public_key = NonAsciiKey -> <<228>>

\* The largest code point the ascii codec encodes.
AsciiMax == 127

\* public_key.encode("ascii"): one byte per code point, and
\* UnicodeEncodeError for a code point outside ASCII.
encode_ascii(public_key) ==
    LET cp == CodePoints(public_key)
    IN IF \E i \in 1..Len(cp) : cp[i] > AsciiMax
       THEN [exc |-> "UnicodeEncodeError"]
       ELSE [exc |-> None, ret |-> cp]

\* b"\n"
Newline == <<10>>

\* hashlib.md5(...).hexdigest(), wrapped into octets: the digests of
\* b"A\n" and b"B\n".
md5(bytes) ==
    CASE bytes = <<65, 10>> ->
           <<"bf", "07", "2e", "91", "19", "07", "7b", "4e",
             "76", "43", "7a", "93", "98", "67", "87", "ef">>
      [] bytes = <<66, 10>> ->
           <<"30", "cf", "3d", "7d", "13", "3b", "08", "54",
             "3c", "b6", "c8", "93", "3c", "29", "df", "d7">>

\* hashlib.md5(public_key.encode("ascii") + b"\n").hexdigest(), wrapped
\* into octets.
hash_as_list(public_key) == md5(encode_ascii(public_key).ret \o Newline)

current_mac_addr(public_key) ==
    <<"02">> \o SubSeq(hash_as_list(public_key), 1, 5)

\* hex(int(octet, 16) ^ 2) for the octets a mac built above starts with.
FlipUniversalBit(octet) ==
    CASE octet = "02" -> "00"
      [] octet = "00" -> "02"

\* wgkex.common.utils.mac2eui64 with a prefix: the modified EUI-64 of the
\* mac inside the prefix's network, printed with the prefix's own length.
mac2eui64(mac, prefix) ==
    [net  |-> prefix.net,
     iid  |-> <<FlipUniversalBit(mac[1]), mac[2], mac[3], "ff", "fe",
                mac[4], mac[5], mac[6]>>,
     plen |-> prefix.plen]

LinkLocalPrefix == [net |-> "fe80::", plen |-> 10]

\* Mutant of lladdr: the prefix length mac2eui64 printed is kept.
lladdr_unsubstituted(c) ==
    mac2eui64(current_mac_addr(c.public_key), LinkLocalPrefix)

\* re.sub(r"/\d+$", "/128", ...)
lladdr(c) ==
    [mac2eui64(current_mac_addr(c.public_key), LinkLocalPrefix)
        EXCEPT !.plen = 128]

\* Reading client.lladdr: the address, or the exception of the encoding.
WireGuardClient_lladdr(c) ==
    IF encode_ascii(c.public_key).exc # None
    THEN [exc |-> encode_ascii(c.public_key).exc]
    ELSE [exc |-> None, ret |-> lladdr(c)]

\* re.sub(r"/\d+$", "", client.lladdr)
StripPrefixLen(addr) == [net |-> addr.net, iid |-> addr.iid]

vx_interface(c) == "vx-" \o c.domain
wg_interface(c) == "wg-" \o c.domain

WgNames == {"wg-" \o d : d \in Domains}
VxNames == {"vx-" \o d : d \in Domains}

(***************************************************************************)
(* The kernel, as pyroute2 shows it.                                       *)
(***************************************************************************)
\* IPRoute.link_lookup(ifname=...): the indices of the links of that name.
\* A link's index is modelled by its name.
link_lookup(ifname) == IF ifname \in links THEN <<ifname>> ELSE <<>>

\* What a call asks of the kernel.  NoReq: the call did not get that far.
NoReq == [sent |-> FALSE]
WgReq(ifname, peer) == [sent |-> TRUE, ifname |-> ifname, peer |-> peer]
RouteReq(command, dst, oif) ==
    [sent |-> TRUE, command |-> command, dst |-> dst, oif |-> oif]
FdbReq(command, ifindex, mac, dst, nda_ifindex) ==
    [sent |-> TRUE, command |-> command, ifindex |-> ifindex, lladdr |-> mac,
     dst |-> dst, NDA_IFINDEX |-> nda_ifindex]

HasPeer(dev, key) == \E i \in 1..Len(dev) : dev[i].public_key = key

\* WireGuard.set(interface, peer=...): removing deletes the peer, and is
\* accepted when there is none; otherwise the peer is created at the end of
\* the device's list or updated in place.
WgSet(ifname, peer) ==
    IF ifname \notin links
    THEN [exc |-> "NetlinkError", wgdev |-> wgdev, req |-> WgReq(ifname, peer)]
    ELSE LET dev == wgdev[ifname]
             key == peer.public_key
         IN IF peer.remove
            THEN [exc |-> None, req |-> WgReq(ifname, peer),
                  wgdev |-> [wgdev EXCEPT ![ifname] =
                      SelectSeq(dev, LAMBDA p : p.public_key # key)]]
            ELSE IF HasPeer(dev, key)
            THEN [exc |-> None, req |-> WgReq(ifname, peer),
                  wgdev |-> [wgdev EXCEPT ![ifname] =
                      [i \in 1..Len(dev) |->
                          IF dev[i].public_key = key
                          THEN [dev[i] EXCEPT !.allowed_ips =
                                   @ \cup {peer.allowed_ips[j] :
                                       j \in 1..Len(peer.allowed_ips)}]
                          ELSE dev[i]]]]
            ELSE [exc |-> None, req |-> WgReq(ifname, peer),
                  wgdev |-> [wgdev EXCEPT ![ifname] =
                      Append(dev,
                          [public_key |-> key,
                           allowed_ips |-> {peer.allowed_ips[j] :
                               j \in 1..Len(peer.allowed_ips)},
                           last_handshake |-> 0])]]

\* Mutant of IpRoute: "del" removes the routes to the destination through
\* every interface.
IpRouteAnyOif(command, dst, oif) ==
    LET r == [dst |-> dst, oif |-> oif]
        q == RouteReq(command, dst, oif)
    IN IF command = "replace"
       THEN [exc |-> None, routes |-> routes \cup {r}, req |-> q]
       ELSE IF r \in routes
       THEN [exc |-> None, routes |-> {x \in routes : x.dst # dst}, req |-> q]
       ELSE [exc |-> "NetlinkError", routes |-> routes, req |-> q]

\* IPRoute.route(command, dst=, oif=): "replace" creates the route or
\* overwrites it; "del" of a route that is not there is rejected (ESRCH).
IpRoute(command, dst, oif) ==
    LET r == [dst |-> dst, oif |-> oif]
        q == RouteReq(command, dst, oif)
    IN IF command = "replace"
       THEN [exc |-> None, routes |-> routes \cup {r}, req |-> q]
       ELSE IF r \in routes
       THEN [exc |-> None, routes |-> routes \ {r}, req |-> q]
       ELSE [exc |-> "NetlinkError", routes |-> routes, req |-> q]

\* Mutant of IpFdb: "append" behaves like "add" and rejects a destination
\* that is already there (EEXIST).
IpFdbExclusive(command, ifindex, mac, dst, nda_ifindex) ==
    LET e == [ifindex |-> ifindex, lladdr |-> mac, dst |-> dst,
              NDA_IFINDEX |-> nda_ifindex]
        q == FdbReq(command, ifindex, mac, dst, nda_ifindex)
    IN IF command = "append"
       THEN IF e \in fdbtab
            THEN [exc |-> "NetlinkError", fdbtab |-> fdbtab, req |-> q]
            ELSE [exc |-> None, fdbtab |-> fdbtab \cup {e}, req |-> q]
       ELSE IF e \in fdbtab
       THEN [exc |-> None, fdbtab |-> fdbtab \ {e}, req |-> q]
       ELSE [exc |-> "NetlinkError", fdbtab |-> fdbtab, req |-> q]

\* IPRoute.fdb(command, ifindex=, lladdr=, dst=, NDA_IFINDEX=): "append"
\* adds the destination to the entry of that MAC and accepts one that is
\* already there; "del" of an entry that is not there is rejected (ENOENT).
IpFdb(command, ifindex, mac, dst, nda_ifindex) ==
    LET e == [ifindex |-> ifindex, lladdr |-> mac, dst |-> dst,
              NDA_IFINDEX |-> nda_ifindex]
        q == FdbReq(command, ifindex, mac, dst, nda_ifindex)
    IN IF command = "append"
       THEN [exc |-> None, fdbtab |-> fdbtab \cup {e}, req |-> q]
       ELSE IF e \in fdbtab
       THEN [exc |-> None, fdbtab |-> fdbtab \ {e}, req |-> q]
       ELSE [exc |-> "NetlinkError", fdbtab |-> fdbtab, req |-> q]

(***************************************************************************)
(* The three adapters.  Each returns the exception it raised (None when it *)
(* returned) and the table it leaves.                                      *)
(***************************************************************************)
update_wireguard_peer(c) ==
    LET wg_peer == [public_key |-> c.public_key,
                    allowed_ips |-> <<lladdr(c)>>,
                    remove |-> c.remove]
    IN WgSet(wg_interface(c), wg_peer)

route_handler(c) ==
    LET oif == link_lookup(wg_interface(c))
    IN IF oif = <<>>
       THEN [exc |-> "IndexError", routes |-> routes, req |-> NoReq]
       ELSE IpRoute(IF c.remove THEN "del" ELSE "replace", lladdr(c), oif[1])

\* Mutant of bridge_fdb_handler: the destination keeps its prefix length.
bridge_fdb_handler_prefixed(c) ==
    LET ifindex == link_lookup(vx_interface(c))
        nda     == link_lookup(wg_interface(c))
    IN IF ifindex = <<>> \/ nda = <<>>
       THEN [exc |-> "IndexError", fdbtab |-> fdbtab, req |-> NoReq]
       ELSE IpFdb(IF c.remove THEN "del" ELSE "append", ifindex[1],
                  ZeroMac, lladdr(c), nda[1])

\* Mutant of bridge_fdb_handler: the command ignores client.remove.
bridge_fdb_handler_append(c) ==
    LET ifindex == link_lookup(vx_interface(c))
        nda     == link_lookup(wg_interface(c))
    IN IF ifindex = <<>> \/ nda = <<>>
       THEN [exc |-> "IndexError", fdbtab |-> fdbtab, req |-> NoReq]
       ELSE IpFdb("append", ifindex[1], ZeroMac, StripPrefixLen(lladdr(c)),
                  nda[1])

bridge_fdb_handler(c) ==
    LET ifindex == link_lookup(vx_interface(c))
        nda     == link_lookup(wg_interface(c))
    IN IF ifindex = <<>> \/ nda = <<>>
       THEN [exc |-> "IndexError", fdbtab |-> fdbtab, req |-> NoReq]
       ELSE IpFdb(IF c.remove THEN "del" ELSE "append", ifindex[1],
                  ZeroMac, StripPrefixLen(lladdr(c)), nda[1])

(***************************************************************************)
(* The stale peer detector.                                                *)
(***************************************************************************)
\* WireGuard.info(interface): the peers of the device as netlink messages,
\* in the kernel's order.  The kernel sends a peer's last handshake time
\* with the first fragment of the peer only, so a message may lack the
\* attribute: noattr are the keys whose message lacks it in this dump.
WgInfo(ifname, noattr) ==
    LET dev == wgdev[ifname]
    IN [i \in 1..Len(dev) |->
           IF dev[i].public_key \in noattr
           THEN [WGPEER_A_PUBLIC_KEY |-> dev[i].public_key]
           ELSE [WGPEER_A_PUBLIC_KEY |-> dev[i].public_key,
                 WGPEER_A_LAST_HANDSHAKE_TIME |->
                     [tv_sec |-> dev[i].last_handshake, tv_nsec |-> 0]]]

\* msg.get_attr(name) is None
AttrIsNone(msg, name) == name \notin DOMAIN msg

\* attr.get("tv_sec", int())
TvSec(attr) == IF "tv_sec" \in DOMAIN attr THEN attr.tv_sec ELSE 0

\* int((datetime.now() - timedelta(hours=_PEER_TIMEOUT_HOURS)).timestamp())
three_hrs_in_secs == now - PEER_TIMEOUT_HOURS

\* Mutant of IsStaleMsg: a handshake at the cutoff counts as stale.
IsStaleMsgInclusive(msg) ==
    TvSec(msg.WGPEER_A_LAST_HANDSHAKE_TIME) <= three_hrs_in_secs

\* The condition of the list comprehension, for a message that has the
\* attribute.
IsStaleMsg(msg) ==
    TvSec(msg.WGPEER_A_LAST_HANDSHAKE_TIME) < three_hrs_in_secs

\* Mutant of PublicKeys: the keys come out in the reverse of the kernel's
\* order.
PublicKeysReversed(msgs) ==
    [i \in 1..Len(msgs) |-> msgs[Len(msgs) + 1 - i].WGPEER_A_PUBLIC_KEY]

\* client.get_attr("WGPEER_A_PUBLIC_KEY").decode("utf-8") for client in ...
PublicKeys(msgs) == [i \in 1..Len(msgs) |-> msgs[i].WGPEER_A_PUBLIC_KEY]

\* Mutant of find_stale_wireguard_clients: an interface that does not exist
\* is reported as one without peers.
find_stale_wireguard_clients_lenient(ifname, noattr) ==
    IF ifname \notin links
    THEN [exc |-> None, ret |-> <<>>, all_clients |-> <<>>]
    ELSE LET msgs == WgInfo(ifname, noattr)
         IN IF \E i \in 1..Len(msgs) :
                   AttrIsNone(msgs[i], "WGPEER_A_LAST_HANDSHAKE_TIME")
            THEN [exc |-> "AttributeError", ret |-> <<>>,
                  all_clients |-> msgs]
            ELSE [exc |-> None,
                  ret |-> PublicKeys(SelectSeq(msgs, IsStaleMsg)),
                  all_clients |-> msgs]

find_stale_wireguard_clients(ifname, noattr) ==
    IF ifname \notin links
    THEN [exc |-> "NetlinkError", ret |-> <<>>, all_clients |-> <<>>]
    ELSE LET msgs == WgInfo(ifname, noattr)
         IN IF \E i \in 1..Len(msgs) :
                   AttrIsNone(msgs[i], "WGPEER_A_LAST_HANDSHAKE_TIME")
            THEN [exc |-> "AttributeError", ret |-> <<>>,
                  all_clients |-> msgs]
            ELSE [exc |-> None,
                  ret |-> PublicKeys(SelectSeq(msgs, IsStaleMsg)),
                  all_clients |-> msgs]

(***************************************************************************)
(* The worker.                                                             *)
(***************************************************************************)
NoClient == WireGuardClient(None, None, FALSE)
Tables == [wgdev |-> wgdev, routes |-> routes, fdbtab |-> fdbtab]
NoSnap == [wgdev |-> [n \in WgNames |-> <<>>], routes |-> {}, fdbtab |-> {}]
NoResults == <<>>
Reply == "reply"

\* One adapter invocation: which adapter, what it asked of the kernel and
\* what it raised (None when it returned).
Call(name, r) == [name |-> name, exc |-> r.exc, req |-> r.req]

Update(dict, key, value) == [k \in DOMAIN dict \cup {key} |->
                                IF k = key THEN value ELSE dict[k]]

Init ==
    /\ links = WgNames \cup VxNames
    /\ wgdev = [n \in WgNames |-> <<>>]
    /\ routes = {}
    /\ fdbtab = {}
    /\ now = PEER_TIMEOUT_HOURS + 1
    /\ pc = "idle"
    /\ caller = None
    /\ client = NoClient
    /\ results = NoResults
    /\ calls = <<>>
    /\ lhStatus = None
    /\ exc = None
    /\ sweepDomain = None
    /\ stale_clients = <<>>
    /\ all_clients = <<>>
    /\ invoked = <<>>
    /\ link_handled = <<>>
    /\ snap = NoSnap
    /\ prevAdd = <<>>
    /\ repeat = FALSE
    /\ running = <<>>
    /\ sessions = 0
    /\ sweepSnap = NoSnap
    /\ d_in = <<>>
    /\ d_out = <<>>

Identity(c) == <<c.public_key, c.domain>>

\* The latest link_handler call is over.
Leave(calls_in_progress) ==
    SubSeq(calls_in_progress, 1, Len(calls_in_progress) - 1)

\* with pyroute2.IPRoute() as ip / with pyroute2.WireGuard() as wg: the
\* session is opened on entry.
OpenSession(open) == open + 1

\* Mutant of ExitWith: the session is closed after the body, not by a with
\* block, so an exception in the body skips it.
ExitOnReturnOnly(open, raised) == IF raised THEN open ELSE open - 1

\* The with block closes the session however its body is left.
ExitWith(open, raised) == open - 1

\* Mutant of EnterLinkHandler: the route is handled before the peer.
EnterLinkHandlerAtRoute(c) ==
    /\ client' = c
    /\ results' = NoResults
    /\ calls' = <<>>
    /\ lhStatus' = "running"
    /\ snap' = Tables
    /\ pc' = "route"
    /\ running' = Append(running, Identity(c))

\* Entry of link_handler(c): results = dict().
EnterLinkHandler(c) ==
    /\ client' = c
    /\ results' = NoResults
    /\ calls' = <<>>
    /\ lhStatus' = "running"
    /\ snap' = Tables
    /\ pc' = "wireguard"
    /\ running' = Append(running, Identity(c))

\* Mutant of Reconcile: the signaling layer calls from a thread of its own,
\* also while a link_handler of the sweep is between two adapters.
ReconcileConcurrent ==
    \E id \in Announced, remove \in BOOLEAN :
        /\ pc \in {"idle", "route", "fdb"}
        /\ Len(running) < 2
        /\ caller' = "signal"
        /\ EnterLinkHandler(WireGuardClient(id[1], id[2], remove))
        /\ repeat' = (prevAdd = id /\ ~remove)
        /\ prevAdd' = <<>>
        /\ UNCHANGED <<sessions, sweepSnap, derive>>
        /\ UNCHANGED <<kernel, exc, sweepDomain, stale_clients, all_clients,
                       invoked, link_handled>>

\* The signaling layer asks for a peer to be added or removed.  The worker
\* is one thread: the call is made when no other call is running.
Reconcile ==
    \E id \in Announced, remove \in BOOLEAN :
        /\ pc = "idle"
        /\ caller' = "signal"
        /\ EnterLinkHandler(WireGuardClient(id[1], id[2], remove))
        /\ repeat' = (prevAdd = id /\ ~remove)
        /\ prevAdd' = <<>>
        /\ UNCHANGED <<sessions, sweepSnap, derive>>
        /\ UNCHANGED <<kernel, exc, sweepDomain, stale_clients, all_clients, invoked,
                       link_handled>>

\* Mutant of LinkWireguard: the peer adapter's exception is caught and
\* recorded, as the route adapter's is.
LinkWireguardCaught ==
    /\ pc = "wireguard"
    /\ LET r == update_wireguard_peer(client)
       IN /\ calls' = Append(calls, Call("Wireguard", r))
          /\ sessions' = ExitWith(OpenSession(sessions), r.exc # None)
          /\ running' = running
          /\ IF r.exc # None
             THEN /\ results' = Update(results, "Wireguard", r.exc)
                  /\ UNCHANGED wgdev
             ELSE /\ wgdev' = r.wgdev
                  /\ results' = Update(results, "Wireguard", Reply)
    /\ pc' = "route"
    /\ UNCHANGED <<sweepSnap, derive>>
    /\ UNCHANGED <<links, routes, fdbtab, now, caller, client, lhStatus, exc,
                   sweepDomain, stale_clients, all_clients, invoked, link_handled, snap,
                   prevAdd, repeat>>

\* results.update({"Wireguard": update_wireguard_peer(client)})
LinkWireguard ==
    /\ pc = "wireguard"
    /\ LET r == update_wireguard_peer(client)
       IN /\ calls' = Append(calls, Call("Wireguard", r))
          /\ sessions' = ExitWith(OpenSession(sessions), r.exc # None)
          /\ running' = IF r.exc # None THEN Leave(running) ELSE running
          /\ IF r.exc # None
             THEN /\ exc' = r.exc
                  /\ lhStatus' = "raised"
                  /\ pc' = "raised"
                  /\ UNCHANGED <<wgdev, results>>
             ELSE /\ wgdev' = r.wgdev
                  /\ results' = Update(results, "Wireguard", Reply)
                  /\ pc' = "route"
                  /\ UNCHANGED <<exc, lhStatus>>
    /\ UNCHANGED <<sweepSnap, derive>>
    /\ UNCHANGED <<links, routes, fdbtab, now, caller, client, sweepDomain,
                   stale_clients, all_clients, invoked, link_handled, snap, prevAdd,
                   repeat>>

\* Mutant of LinkRoute: the exception is raised again after it is logged.
LinkRouteReraised ==
    /\ pc = "route"
    /\ LET r == route_handler(client)
       IN /\ calls' = Append(calls, Call("Route", r))
          /\ sessions' = ExitWith(OpenSession(sessions), r.exc # None)
          /\ running' = IF r.exc # None THEN Leave(running) ELSE running
          /\ IF r.exc # None
             THEN /\ exc' = r.exc
                  /\ lhStatus' = "raised"
                  /\ pc' = "raised"
                  /\ UNCHANGED <<routes, results>>
             ELSE /\ routes' = r.routes
                  /\ results' = Update(results, "Route", Reply)
                  /\ pc' = "fdb"
                  /\ UNCHANGED <<exc, lhStatus>>
    /\ UNCHANGED <<sweepSnap, derive>>
    /\ UNCHANGED <<links, wgdev, fdbtab, now, caller, client, sweepDomain,
                   stale_clients, all_clients, invoked, link_handled, snap, prevAdd,
                   repeat>>

\* try: results.update({"Route": route_handler(client)})
\* except Exception as e: results.update({"Route": e})
LinkRoute ==
    /\ pc = "route"
    /\ LET r == route_handler(client)
       IN /\ calls' = Append(calls, Call("Route", r))
          /\ sessions' = ExitWith(OpenSession(sessions), r.exc # None)
          /\ running' = running
          /\ IF r.exc # None
             THEN /\ results' = Update(results, "Route", r.exc)
                  /\ UNCHANGED routes
             ELSE /\ routes' = r.routes
                  /\ results' = Update(results, "Route", Reply)
    /\ pc' = "fdb"
    /\ UNCHANGED <<sweepSnap, derive>>
    /\ UNCHANGED <<links, wgdev, fdbtab, now, caller, client, lhStatus, exc,
                   sweepDomain, stale_clients, all_clients, invoked, link_handled, snap,
                   prevAdd, repeat>>

\* Mutant of LinkBridgeFdb: the exception is caught and recorded, as the
\* route adapter's is, and link_handler returns.
LinkBridgeFdbCaught ==
    /\ pc = "fdb"
    /\ LET r == bridge_fdb_handler(client)
       IN /\ calls' = Append(calls, Call("Bridge FDB", r))
          /\ sessions' = ExitWith(OpenSession(sessions), r.exc # None)
          /\ running' = Leave(running)
          /\ IF r.exc # None
             THEN /\ results' = Update(results, "Bridge FDB", r.exc)
                  /\ UNCHANGED fdbtab
             ELSE /\ fdbtab' = r.fdbtab
                  /\ results' = Update(results, "Bridge FDB", Reply)
          /\ lhStatus' = "returned"
          /\ IF caller = "sweep"
             THEN /\ link_handled' = Append(link_handled, results')
                  /\ pc' = "loop"
             ELSE /\ pc' = "returned"
                  /\ UNCHANGED link_handled
    /\ UNCHANGED <<sweepSnap, derive>>
    /\ UNCHANGED <<links, wgdev, routes, now, caller, client, exc,
                   sweepDomain, stale_clients, all_clients, invoked, snap, prevAdd, repeat>>

\* Mutant of LinkBridgeFdb: when the adapter raises, what the WireGuard and
\* route adapters did in this call is undone before the error propagates.
LinkBridgeFdbRollback ==
    /\ pc = "fdb"
    /\ LET r == bridge_fdb_handler(client)
       IN /\ calls' = Append(calls, Call("Bridge FDB", r))
          /\ sessions' = ExitWith(OpenSession(sessions), r.exc # None)
          /\ running' = Leave(running)
          /\ IF r.exc # None
             THEN /\ exc' = r.exc
                  /\ lhStatus' = "raised"
                  /\ pc' = "raised"
                  /\ wgdev' = snap.wgdev
                  /\ routes' = snap.routes
                  /\ UNCHANGED <<fdbtab, results, link_handled>>
             ELSE /\ fdbtab' = r.fdbtab
                  /\ results' = Update(results, "Bridge FDB", Reply)
                  /\ lhStatus' = "returned"
                  /\ UNCHANGED <<exc, wgdev, routes>>
                  /\ IF caller = "sweep"
                     THEN /\ link_handled' = Append(link_handled, results')
                          /\ pc' = "loop"
                     ELSE /\ pc' = "returned"
                          /\ UNCHANGED link_handled
    /\ UNCHANGED <<sweepSnap, derive>>
    /\ UNCHANGED <<links, now, caller, client, sweepDomain,
                   stale_clients, all_clients, invoked, snap, prevAdd, repeat>>

\* results.update({"Bridge FDB": bridge_fdb_handler(client)}); return results
\* A link_handler called by the sweep returns into its list comprehension.
LinkBridgeFdb ==
    /\ pc = "fdb"
    /\ LET r == bridge_fdb_handler(client)
       IN /\ calls' = Append(calls, Call("Bridge FDB", r))
          /\ sessions' = ExitWith(OpenSession(sessions), r.exc # None)
          /\ running' = Leave(running)
          /\ IF r.exc # None
             THEN /\ exc' = r.exc
                  /\ lhStatus' = "raised"
                  /\ pc' = "raised"
                  /\ UNCHANGED <<fdbtab, results, link_handled>>
             ELSE /\ fdbtab' = r.fdbtab
                  /\ results' = Update(results, "Bridge FDB", Reply)
                  /\ lhStatus' = "returned"
                  /\ UNCHANGED exc
                  /\ IF caller = "sweep"
                     THEN /\ link_handled' = Append(link_handled, results')
                          /\ pc' = "loop"
                     ELSE /\ pc' = "returned"
                          /\ UNCHANGED link_handled
    /\ UNCHANGED <<sweepSnap, derive>>
    /\ UNCHANGED <<links, wgdev, routes, now, caller, client, sweepDomain,
                   stale_clients, all_clients, invoked, snap, prevAdd, repeat>>

\* wg_flush_stale_peers(domain) is called.
FlushStart ==
    \E d \in Domains :
        /\ pc = "idle"
        /\ caller' = "sweep"
        /\ sweepDomain' = d
        /\ pc' = "find"
        /\ prevAdd' = <<>>
        /\ sweepSnap' = Tables
        /\ UNCHANGED <<running, sessions, derive>>
        /\ UNCHANGED <<kernel, client, results, calls, lhStatus, exc,
                       stale_clients, all_clients, invoked, link_handled, snap, repeat>>

\* stale_clients = [... for ... in find_stale_wireguard_clients("wg-" + domain)]
FlushFind ==
    /\ pc = "find"
    /\ \E noattr \in SUBSET Keys :
          LET r == find_stale_wireguard_clients("wg-" \o sweepDomain, noattr)
          IN /\ all_clients' = r.all_clients
             /\ sessions' = ExitWith(OpenSession(sessions), r.exc # None)
             /\ IF r.exc # None
                THEN /\ exc' = r.exc
                     /\ pc' = "raised"
                     /\ UNCHANGED stale_clients
                ELSE /\ stale_clients' = r.ret
                     /\ pc' = "loop"
                     /\ UNCHANGED exc
    /\ UNCHANGED <<running, sweepSnap, derive>>
    /\ UNCHANGED <<kernel, caller, client, results, calls, lhStatus,
                   sweepDomain, invoked, link_handled, snap, prevAdd, repeat>>

\* The next element of [link_handler(c) for c in stale_wireguard_clients].
FlushNext ==
    /\ pc = "loop"
    /\ Len(invoked) < Len(stale_clients)
    /\ LET key == stale_clients[Len(invoked) + 1]
       IN /\ invoked' = Append(invoked, key)
          /\ EnterLinkHandler(WireGuardClient(key, sweepDomain, TRUE))
    /\ UNCHANGED <<sessions, sweepSnap, derive>>
    /\ UNCHANGED <<kernel, caller, exc, sweepDomain, stale_clients, all_clients,
                   link_handled, prevAdd, repeat>>

\* return link_handled
FlushReturn ==
    /\ pc = "loop"
    /\ Len(invoked) = Len(stale_clients)
    /\ pc' = "returned"
    /\ UNCHANGED <<running, sessions, sweepSnap, derive>>
    /\ UNCHANGED <<kernel, caller, client, results, calls, lhStatus, exc,
                   sweepDomain, stale_clients, all_clients, invoked, link_handled, snap,
                   prevAdd, repeat>>

\* Mutant of Finish: the sweep driver returns after a sweep that returned.
FinishExits ==
    /\ pc \in {"returned", "raised"}
    /\ prevAdd' = IF caller = "signal" /\ pc = "returned" /\ ~client.remove
                  THEN <<client.public_key, client.domain>>
                  ELSE <<>>
    /\ pc' = IF caller = "sweep" /\ pc = "returned" THEN "exited" ELSE "idle"
    /\ caller' = None
    /\ client' = NoClient
    /\ results' = NoResults
    /\ calls' = <<>>
    /\ lhStatus' = None
    /\ exc' = None
    /\ sweepDomain' = None
    /\ stale_clients' = <<>>
    /\ all_clients' = <<>>
    /\ invoked' = <<>>
    /\ link_handled' = <<>>
    /\ snap' = NoSnap
    /\ repeat' = FALSE
    /\ sweepSnap' = NoSnap
    /\ UNCHANGED <<running, sessions, derive>>
    /\ UNCHANGED kernel

\* The top-level call is over: its caller takes the result or the
\* exception, and the worker waits for the next call.  For the sweep driver
\* (flush_workers) this is the end of a tick: it sleeps and sweeps again.
Finish ==
    /\ pc \in {"returned", "raised"}
    /\ prevAdd' = IF caller = "signal" /\ pc = "returned" /\ ~client.remove
                  THEN <<client.public_key, client.domain>>
                  ELSE <<>>
    /\ pc' = "idle"
    /\ caller' = None
    /\ client' = NoClient
    /\ results' = NoResults
    /\ calls' = <<>>
    /\ lhStatus' = None
    /\ exc' = None
    /\ sweepDomain' = None
    /\ stale_clients' = <<>>
    /\ all_clients' = <<>>
    /\ invoked' = <<>>
    /\ link_handled' = <<>>
    /\ snap' = NoSnap
    /\ repeat' = FALSE
    /\ sweepSnap' = NoSnap
    /\ UNCHANGED <<running, sessions, derive>>
    /\ UNCHANGED kernel

(***************************************************************************)
(* The kernel changing between two calls of the worker.                    *)
(***************************************************************************)
\* A link is deleted: a WireGuard device takes its peers and the routes
\* through it with it, a VXLAN device its FDB.
LinkDel ==
    \E n \in links :
        /\ pc = "idle"
        /\ links' = links \ {n}
        /\ wgdev' = IF n \in WgNames THEN [wgdev EXCEPT ![n] = <<>>] ELSE wgdev
        /\ routes' = {r \in routes : r.oif # n}
        /\ fdbtab' = {e \in fdbtab : e.ifindex # n}
        /\ prevAdd' = <<>>
        /\ UNCHANGED <<running, sessions, sweepSnap, derive>>
        /\ UNCHANGED <<now, pc, caller, client, results, calls, lhStatus, exc,
                       sweepDomain, stale_clients, all_clients, invoked, link_handled,
                       snap, repeat>>

LinkAdd ==
    \E n \in (WgNames \cup VxNames) \ links :
        /\ pc = "idle"
        /\ links' = links \cup {n}
        /\ prevAdd' = <<>>
        /\ UNCHANGED <<running, sessions, sweepSnap, derive>>
        /\ UNCHANGED <<wgdev, routes, fdbtab, now, pc, caller, client,
                       results, calls, lhStatus, exc, sweepDomain,
                       stale_clients, all_clients, invoked, link_handled, snap, repeat>>

\* A peer completes a handshake.
Handshake ==
    \E n \in WgNames :
        \E i \in 1..Len(wgdev[n]) :
            /\ pc = "idle"
            /\ wgdev[n][i].last_handshake # now
            /\ wgdev' = [wgdev EXCEPT ![n][i].last_handshake = now]
            /\ prevAdd' = <<>>
            /\ UNCHANGED <<running, sessions, sweepSnap, derive>>
            /\ UNCHANGED <<links, routes, fdbtab, now, pc, caller, client,
                           results, calls, lhStatus, exc, sweepDomain,
                           stale_clients, all_clients, invoked, link_handled, snap,
                           repeat>>

Tick ==
    /\ pc = "idle"
    /\ now + TickHours <= MaxNow
    /\ now' = now + TickHours
    /\ prevAdd' = <<>>
    /\ UNCHANGED <<running, sessions, sweepSnap, derive>>
    /\ UNCHANGED <<links, wgdev, routes, fdbtab, pc, caller, client, results,
                   calls, lhStatus, exc, sweepDomain, stale_clients, all_clients, invoked,
                   link_handled, snap, repeat>>

\* time.sleep of the sweep driver is interrupted: the InterruptedError
\* propagates out of flush_workers, which is over.
Interrupt ==
    /\ pc = "idle"
    /\ pc' = "interrupted"
    /\ exc' = "InterruptedError"
    /\ UNCHANGED <<kernel, derive>>
    /\ UNCHANGED <<caller, client, results, calls, lhStatus, sweepDomain,
                   stale_clients, all_clients, invoked, link_handled, snap,
                   prevAdd, repeat, running, sessions, sweepSnap>>

\* client.lladdr is read, of a client built from any string, domain and
\* flag, with the kernel in whatever state it is.
ReadLladdr ==
    \E c \in {WireGuardClient(k, d, r) :
                  k \in Keys \cup {NonAsciiKey}, d \in Domains, r \in BOOLEAN} :
        /\ pc = "idle"
        /\ Len(d_in) < MaxReads
        /\ d_in' = Append(d_in, [client |-> c,
                                 wg_up |-> wg_interface(c) \in links])
        /\ d_out' = Append(d_out, WireGuardClient_lladdr(c))
        /\ UNCHANGED <<kernel, worker>>

Next ==
    \/ Reconcile
    \/ LinkWireguard
    \/ LinkRoute
    \/ LinkBridgeFdb
    \/ FlushStart
    \/ FlushFind
    \/ FlushNext
    \/ FlushReturn
    \/ Finish
    \/ LinkDel
    \/ LinkAdd
    \/ Handshake
    \/ Tick
    \/ Interrupt

Spec == Init /\ [][Next]_vars

\* The lladdr property on its own, read while links come and go.
NextDerive ==
    \/ ReadLladdr
    \/ LinkDel
    \/ LinkAdd

SpecDerive == Init /\ [][NextDerive]_vars

(***************************************************************************)
(* What the claims speak of.                                               *)
(***************************************************************************)
Raised(name) ==
    \E i \in 1..Len(calls) : calls[i].name = name /\ calls[i].exc # None
Invoked(name) == \E i \in 1..Len(calls) : calls[i].name = name
CallNames == [i \in 1..Len(calls) |-> calls[i].name]
IsPrefix(s, t) == Len(s) <= Len(t) /\ \A i \in 1..Len(s) : s[i] = t[i]
AdapterOrder == <<"Wireguard", "Route", "Bridge FDB">>

\* The peer's entry in each of the three tables.
HasWgPeer(c, t) ==
    \E i \in 1..Len(t.wgdev[wg_interface(c)]) :
        /\ t.wgdev[wg_interface(c)][i].public_key = c.public_key
        /\ lladdr(c) \in t.wgdev[wg_interface(c)][i].allowed_ips
HasRoute(c, t) == [dst |-> lladdr(c), oif |-> wg_interface(c)] \in t.routes
HasFdb(c, t) ==
    [ifindex |-> vx_interface(c), lladdr |-> ZeroMac,
     dst |-> StripPrefixLen(lladdr(c)), NDA_IFINDEX |-> wg_interface(c)]
        \in t.fdbtab

\* C1: when update_wireguard_peer raises, link_handler raises to its caller
\* and has invoked neither route_handler nor bridge_fdb_handler.
C1_WireguardErrorAborts ==
    Raised("Wireguard") =>
        /\ lhStatus = "raised"
        /\ pc = "raised"
        /\ exc = calls[1].exc
        /\ ~Invoked("Route")
        /\ ~Invoked("Bridge FDB")

C1_Witness == Raised("Wireguard") /\ client.remove /\ pc = "raised"

\* C2: when route_handler raises, the exception is caught: the results hold
\* it under "Route", bridge_fdb_handler is the next call made, and a
\* link_handler that returns has invoked it and returns the exception under
\* "Route".
C2_RouteErrorCaught ==
    Raised("Route") =>
        /\ "Route" \in DOMAIN results
        /\ results["Route"] = calls[2].exc
        /\ pc = "fdb" \/ Invoked("Bridge FDB")
        /\ lhStatus = "returned" => Invoked("Bridge FDB")

C2_Witness ==
    /\ Raised("Route")
    /\ lhStatus = "returned"
    /\ results["Route"] = "NetlinkError"
    /\ results["Bridge FDB"] = Reply

\* C3 (as claimed): when a sweep of a domain is over, link_handler has been
\* invoked for every public key the detector returned, also when it raised
\* for an earlier one.
C3_SweepProcessesEveryStalePeer ==
    (caller = "sweep" /\ pc \in {"returned", "raised"}) =>
        \A i \in 1..Len(stale_clients) :
            \E j \in 1..Len(invoked) : invoked[j] = stale_clients[i]

\* C4: the adapters of one link_handler call are invoked in the order
\* Wireguard, Route, Bridge FDB: the route adapter only after the peer
\* adapter has returned, the FDB adapter only after the route adapter has
\* returned or raised.
C4_AdapterOrder ==
    /\ IsPrefix(CallNames, AdapterOrder)
    /\ Invoked("Route") => calls[1].exc = None
    /\ Invoked("Bridge FDB") => Len(calls) = 3 /\ calls[2].name = "Route"
    /\ pc = "route" => CallNames = <<"Wireguard">>
    /\ pc = "fdb" => CallNames = <<"Wireguard", "Route">>

C4_Witness ==
    /\ CallNames = AdapterOrder
    /\ calls[2].exc # None
    /\ calls[3].exc = None

\* The detector has just answered the sweep: nothing is reconciled yet.
DetectorDone ==
    /\ caller = "sweep"
    /\ pc \in {"loop", "returned", "raised"}
    /\ invoked = <<>>

\* Stale as the claim defines it: the last handshake is absent or zero, or
\* strictly before the cutoff.
StaleAsClaimed(msg) ==
    \/ AttrIsNone(msg, "WGPEER_A_LAST_HANDSHAKE_TIME")
    \/ TvSec(msg.WGPEER_A_LAST_HANDSHAKE_TIME) = 0
    \/ TvSec(msg.WGPEER_A_LAST_HANDSHAKE_TIME) < now - PEER_TIMEOUT_HOURS

Returned(key) == \E j \in 1..Len(stale_clients) : stale_clients[j] = key

\* C5 (as claimed): on an interface that exists, the detector does not fail
\* and returns a peer's public key if and only if the peer is stale, a peer
\* with no last-handshake attribute included.
C5_DetectorReturnsExactlyStale ==
    (DetectorDone /\ ("wg-" \o sweepDomain) \in links) =>
        /\ exc = None
        /\ \A i \in 1..Len(all_clients) :
               Returned(all_clients[i].WGPEER_A_PUBLIC_KEY)
                   <=> StaleAsClaimed(all_clients[i])

\* C6 (as claimed): when bridge_fdb_handler raises, the exception propagates
\* out of link_handler after it was recorded in the results under
\* "Bridge FDB".
C6_FdbErrorRecordedThenRaised ==
    Raised("Bridge FDB") =>
        /\ lhStatus = "raised"
        /\ "Bridge FDB" \in DOMAIN results
        /\ results["Bridge FDB"] = exc

\* C6 (amended): when bridge_fdb_handler raises, the exception propagates
\* out of link_handler and is not recorded: the results hold "Wireguard" and
\* "Route" only, and are not returned.
C6_FdbErrorRaisedUnrecorded ==
    Raised("Bridge FDB") =>
        /\ lhStatus = "raised"
        /\ pc = "raised"
        /\ exc = calls[3].exc
        /\ DOMAIN results = {"Wireguard", "Route"}

C6_Witness == Raised("Bridge FDB") /\ exc = "NetlinkError" /\ pc = "raised"

\* C7: when link_handler returns and "Route" holds no caught exception, a
\* peer that was added has a WireGuard peer entry, a route and an FDB entry,
\* and a peer that was removed has none of the three.
C7_ConsistentAcrossSubsystems ==
    (lhStatus = "returned" /\ results["Route"] = Reply) =>
        IF client.remove
        THEN ~HasWgPeer(client, Tables) /\ ~HasRoute(client, Tables)
                /\ ~HasFdb(client, Tables)
        ELSE HasWgPeer(client, Tables) /\ HasRoute(client, Tables)
                /\ HasFdb(client, Tables)

C7_Witness ==
    /\ lhStatus = "returned"
    /\ results["Route"] = Reply
    /\ client.remove
    /\ HasWgPeer(client, snap) /\ HasRoute(client, snap) /\ HasFdb(client, snap)

\* C8 (as claimed): a sweep of a domain invokes link_handler only for keys
\* the detector returned, in its order, each with that domain and
\* remove=True, and when the sweep is over it has done so exactly once for
\* every key returned.
C8_SweepInvokesOncePerStaleKey ==
    caller = "sweep" =>
        /\ IsPrefix(invoked, stale_clients)
        /\ lhStatus # None =>
               client = WireGuardClient(invoked[Len(invoked)], sweepDomain, TRUE)
        /\ pc \in {"returned", "raised"} => invoked = stale_clients

\* C9: a link_handler(remove=False) that directly follows one that returned
\* for the same peer returns too, with no exception under "Route", and
\* leaves the three tables as the first call left them.
C9_RepeatedAddIdempotent ==
    (repeat /\ lhStatus \in {"returned", "raised"}) =>
        /\ lhStatus = "returned"
        /\ results = [k \in {"Wireguard", "Route", "Bridge FDB"} |-> Reply]
        /\ Tables = snap

C9_Witness == repeat /\ pc = "returned" /\ HasFdb(client, snap)

\* C10 (as claimed): a link_handler(remove=True) for a peer that has no
\* entry in any of the three tables, on interfaces that exist, returns and
\* leaves the tables unchanged.
C10_RepeatedRemoveIdempotent ==
    (/\ lhStatus \in {"returned", "raised"}
     /\ client.remove
     /\ {wg_interface(client), vx_interface(client)} \subseteq links
     /\ ~HasWgPeer(client, snap)
     /\ ~HasRoute(client, snap)
     /\ ~HasFdb(client, snap)) =>
        /\ lhStatus = "returned"
        /\ Tables = snap

\* The request of the adapter of that name in the latest link_handler.
ReqOf(name) == calls[CHOOSE i \in 1..Len(calls) : calls[i].name = name].req
Sent(name) == Invoked(name) /\ ReqOf(name).sent

\* C11: the three adapters of one link_handler call address the kernel
\* with one identity: the allowed IP of the WireGuard peer, the destination
\* of the route and, without its prefix length, the destination of the FDB
\* entry are the link-local /128 address of the call's public key; the
\* WireGuard device, the route's output interface and the FDB entry's
\* NDA_IFINDEX are wg-<domain>, and the FDB entry is on vx-<domain>.
C11_OneIdentityPerCall ==
    /\ Sent("Wireguard") =>
          /\ ReqOf("Wireguard").ifname = "wg-" \o client.domain
          /\ ReqOf("Wireguard").peer.public_key = client.public_key
          /\ ReqOf("Wireguard").peer.allowed_ips = <<lladdr(client)>>
          /\ lladdr(client).plen = 128
    /\ Sent("Route") =>
          /\ <<ReqOf("Route").dst>> = ReqOf("Wireguard").peer.allowed_ips
          /\ ReqOf("Route").oif = ReqOf("Wireguard").ifname
    /\ Sent("Bridge FDB") =>
          /\ <<ReqOf("Bridge FDB").dst>> =
                 <<StripPrefixLen(ReqOf("Wireguard").peer.allowed_ips[1])>>
          /\ ReqOf("Bridge FDB").NDA_IFINDEX = ReqOf("Wireguard").ifname
          /\ ReqOf("Bridge FDB").ifindex = "vx-" \o client.domain
          /\ ReqOf("Bridge FDB").lladdr = ZeroMac

C11_Witness ==
    /\ Sent("Wireguard") /\ Sent("Route") /\ Sent("Bridge FDB")
    /\ client.public_key = "A" /\ client.domain = "b"
    /\ lhStatus = "returned"

C13_SessionsReleased ==
    /\ lhStatus \in {"returned", "raised"} => sessions = 0
    /\ (caller = "sweep" /\ pc \in {"loop", "returned", "raised"}) =>
           sessions = 0
    /\ pc \in {"idle", "route", "fdb"} => sessions = 0

C13_Witness ==
    /\ pc = "raised"
    /\ Raised("Route")
    /\ Raised("Bridge FDB")
    /\ sessions = 0

\* The messages of the stale peers, in the order the kernel sent them.
StaleInKernelOrder == SelectSeq(all_clients, StaleAsClaimed)

\* C14: what the detector returns is the list of the public keys of the
\* stale peers in the order the kernel reported them: the stale subsequence
\* of the kernel's list, nothing re-sorted, repeated or left out.
C14_KernelOrderKept ==
    (DetectorDone /\ exc = None /\ ("wg-" \o sweepDomain) \in links) =>
        /\ Len(stale_clients) = Len(StaleInKernelOrder)
        /\ \A i \in 1..Len(stale_clients) :
               stale_clients[i] = StaleInKernelOrder[i].WGPEER_A_PUBLIC_KEY

C14_Witness ==
    /\ DetectorDone
    /\ exc = None
    /\ Len(all_clients) = 2
    /\ all_clients[1].WGPEER_A_PUBLIC_KEY = "B"
    /\ stale_clients = <<"B", "A">>

\* C15: when wg-<domain> does not exist the detector fails with an error
\* and returns no list, and the sweep invokes link_handler for no peer.
C15_MissingInterfaceIsAnError ==
    (caller = "sweep" /\ pc # "find" /\ ("wg-" \o sweepDomain) \notin links) =>
        /\ pc = "raised"
        /\ exc = "NetlinkError"
        /\ stale_clients = <<>>
        /\ invoked = <<>>
        /\ lhStatus = None

C15_Witness ==
    /\ caller = "sweep"
    /\ pc = "raised"
    /\ ("wg-" \o sweepDomain) \notin links
    /\ ("vx-" \o sweepDomain) \in links

\* C16 (as claimed): reading lladdr never fails, whatever string the public
\* key is, strings with non-ASCII characters included.
C16_DerivationNeverFails ==
    \A i \in 1..Len(d_out) : d_out[i].exc = None

\* C17: the derived address is a function of the public key alone: two reads
\* for the same key give the same outcome whatever the domain, the remove
\* flag and the links that exist, and every address has prefix length 128.
C17_AddressOfKeyAlone ==
    /\ \A i, j \in 1..Len(d_out) :
           d_in[i].client.public_key = d_in[j].client.public_key =>
               d_out[i] = d_out[j]
    /\ \A i \in 1..Len(d_out) :
           d_out[i].exc = None => d_out[i].ret.plen = 128

C17_Witness ==
    /\ Len(d_out) = 2
    /\ d_in[1].client.public_key = "A"
    /\ d_in[2].client.public_key = "A"
    /\ d_in[1].client.domain # d_in[2].client.domain
    /\ d_in[1].client.remove # d_in[2].client.remove
    /\ d_in[1].wg_up /\ ~d_in[2].wg_up
    /\ d_out[1].exc = None
    /\ d_out[1].ret.plen = 128
    /\ d_out[2] = d_out[1]

\* The positions of a worker whose sweep driver is in its loop.
InDriverLoop ==
    {"idle", "wireguard", "route", "fdb", "find", "loop", "returned", "raised"}

\* C18: the sweep driver has no normal termination: after a sweep, returned
\* or raised, it sleeps and sweeps again, and it is left only by an
\* interruption raised while it sleeps, which propagates; it never returns.
C18_DriverLeftOnlyByInterrupt ==
    [][/\ (caller = "sweep" /\ pc \in {"returned", "raised"}) => pc' = "idle"
       /\ (pc \in InDriverLoop /\ pc' \notin InDriverLoop) =>
              /\ pc = "idle"
              /\ pc' = "interrupted"
              /\ exc' = "InterruptedError"
       /\ pc \notin InDriverLoop => pc' = pc]_vars

C18_Witness ==
    /\ pc = "interrupted"
    /\ exc = "InterruptedError"
    /\ now > PEER_TIMEOUT_HOURS + 1
    /\ \E n \in WgNames : n \in links /\ wgdev[n] # <<>>

\* C19: link_handler never rolls back.  Once the route adapter's error was
\* caught or the FDB adapter's error propagates, what the earlier adapters
\* of the call did is still in place (the peer is in the WireGuard table, and
\* its route in the route table, exactly when remove is false), and the
\* table of the adapter that failed is as it was when the call began.
C19_NoRollback ==
    (client # NoClient /\ (Raised("Route") \/ Raised("Bridge FDB"))) =>
        /\ HasWgPeer(client, Tables) = ~client.remove
        /\ ~Raised("Route") => (HasRoute(client, Tables) = ~client.remove)
        /\ Raised("Route") => routes = snap.routes
        /\ Raised("Bridge FDB") => fdbtab = snap.fdbtab

C19_Witness ==
    /\ pc = "raised"
    /\ Raised("Bridge FDB")
    /\ ~Raised("Route")
    /\ ~client.remove
    /\ ~HasWgPeer(client, snap)
    /\ ~HasRoute(client, snap)
    /\ HasWgPeer(client, Tables)
    /\ HasRoute(client, Tables)
    /\ ~HasFdb(client, Tables)

\* The tables t without the entries of the public keys ks on wg-d and vx-d.
WithoutEntriesOf(t, ks, d) ==
    [wgdev  |-> [n \in WgNames |->
                    IF n = "wg-" \o d
                    THEN SelectSeq(t.wgdev[n],
                                   LAMBDA p : p.public_key \notin ks)
                    ELSE t.wgdev[n]],
     routes |-> {r \in t.routes :
                    ~(r.oif = "wg-" \o d /\
                      \E k \in ks : r.dst = lladdr(WireGuardClient(k, d, TRUE)))},
     fdbtab |-> {e \in t.fdbtab :
                    ~(e.ifindex = "vx-" \o d /\
                      \E k \in ks : e.dst =
                          StripPrefixLen(lladdr(WireGuardClient(k, d, TRUE))))}]

StaleKeys == {stale_clients[i] : i \in 1..Len(stale_clients)}

\* C20: link_handler(p) for a peer of domain d changes only the entries of
\* p's key on wg-d and vx-d, and a sweep of d only those of the keys it
\* reports stale: the WireGuard peers, routes and FDB entries of every other
\* key and of every other domain's interfaces are as they were at entry.
C20_OnlyOwnEntriesChange ==
    /\ client # NoClient =>
           WithoutEntriesOf(Tables, {client.public_key}, client.domain) =
           WithoutEntriesOf(snap, {client.public_key}, client.domain)
    /\ caller = "sweep" =>
           WithoutEntriesOf(Tables, StaleKeys, sweepDomain) =
           WithoutEntriesOf(sweepSnap, StaleKeys, sweepDomain)

C20_Witness ==
    /\ caller = "sweep"
    /\ pc = "returned"
    /\ sweepDomain = "a"
    /\ stale_clients = <<"A">>
    /\ HasWgPeer(WireGuardClient("A", "a", TRUE), sweepSnap)
    /\ ~HasWgPeer(WireGuardClient("A", "a", TRUE), Tables)
    /\ ~HasRoute(WireGuardClient("A", "a", TRUE), Tables)
    /\ ~HasFdb(WireGuardClient("A", "a", TRUE), Tables)
    /\ HasWgPeer(WireGuardClient("B", "a", TRUE), Tables)
    /\ HasRoute(WireGuardClient("B", "a", TRUE), Tables)
    /\ HasFdb(WireGuardClient("B", "a", TRUE), Tables)
    /\ HasWgPeer(WireGuardClient("A", "b", TRUE), Tables)
    /\ HasRoute(WireGuardClient("A", "b", TRUE), Tables)
    /\ HasFdb(WireGuardClient("A", "b", TRUE), Tables)

====
